---- MODULE Spec2Model ----
(***************************************************************************)
(* Model of the Daifugo NPC decision engine (lib/daifugo): the rank weight *)
(* tables, the combination generator, the legality filter, the turn        *)
(* horizon estimator, the move evaluator and DaifugoNpc.chooseMove.        *)
(*                                                                         *)
(* The functions are pure, so a specification draws the arguments of a     *)
(* call in Init and one action per exported function applies it and keeps  *)
(* the returned value in `out`.                                            *)
(*                                                                         *)
(* Numbers: the scores of the source are IEEE doubles built from integers, *)
(* the factor 1.3 and one division.  They are modelled as exact rationals  *)
(* [n, d] in lowest terms.                                                 *)
(***************************************************************************)
EXTENDS Integers, Sequences, FiniteSets, TLC

VARIABLES hand,   \* Card[]: the hand argument
          state,  \* TableState: field (currentCombination, revolution, passesInRow), opponents, turnCount
          op,     \* "idle" before the call, afterwards the function that was called
          out,    \* the value the call returned
          participants,  \* Participant[]: the roster argument of ensureNpcParticipants
          desiredCount,  \* its desiredCount argument
          random,        \* its random source: the values it returns, in turn and cyclically
          npcSequence,   \* the module-level counter behind generateNpcId
          store,         \* rateLimiter: Map from client key to its RecordEntry (count, expiresAt)
          now,           \* what Date.now() returns, in milliseconds
          granted        \* per client key, the times of the canProceed calls that returned true

vars == <<hand, state, op, out, participants, desiredCount, random, npcSequence,
          store, now, granted>>

\* what a call of the decision engine leaves alone
rosterVars == <<participants, desiredCount, random, npcSequence>>

\* what only canProceed and the clock change
limiterVars == <<store, now, granted>>

None == [undefined |-> TRUE]   \* undefined: no currentCombination, no combination, no result yet

-----------------------------------------------------------------------------
(* Sequence helpers (Array.prototype.map / filter / reduce / slice).        *)

Range(s) == {s[i] : i \in 1..Len(s)}

\* an array built element by element (Array.prototype.map): the function
\* [i \in 1..n |-> e] held as a tuple of values
Array(f) == f \o <<>>

RECURSIVE SumSeq(_)
SumSeq(s) == IF s = <<>> THEN 0 ELSE Head(s) + SumSeq(Tail(s))

Max2(a, b) == IF a >= b THEN a ELSE b

RECURSIVE MaxSeq(_, _)
MaxSeq(s, start) == IF s = <<>> THEN start ELSE MaxSeq(Tail(s), Max2(start, Head(s)))

RECURSIVE MinSeq(_)
MinSeq(s) == IF Len(s) = 1 THEN s[1]
             ELSE LET m == MinSeq(Tail(s)) IN IF s[1] <= m THEN s[1] ELSE m

Take(s, n) == SubSeq(s, 1, IF n <= Len(s) THEN n ELSE Len(s))

RECURSIVE Flatten(_)
Flatten(ss) == IF ss = <<>> THEN <<>> ELSE Head(ss) \o Flatten(Tail(ss))

-----------------------------------------------------------------------------
(* Rank weights: utils.ts lines 3-14 and getRankWeight.                     *)

RANKS == <<3, 4, 5, 6, 7, 8, 9, 10, 11, 12, 13, 14, 15, 16>>

JokerRank == 16

TwoRank == 15       \* the "2", the highest ordinary rank

MinSequence == 3   \* shortest run that is a sequence

IndexOfRank(rank) == CHOOSE i \in 1..Len(RANKS) : RANKS[i] = rank

\* Faulty variant: the joker ranks below the 2 (rank 15), which gets the top weight.
NORMAL_WEIGHT_jokerBelowTwo(rank) ==
    IF rank = JokerRank THEN Len(RANKS) - 1
    ELSE IF rank = TwoRank THEN Len(RANKS)
    ELSE IndexOfRank(rank) + 1

\* NORMAL_WEIGHT.set(rank, index + 1), index counted from 0
NORMAL_WEIGHT(rank) == (IndexOfRank(rank) - 1) + 1

\* Faulty variant: the joker gets RANKS.length, the weight of rank 3.
REVOLUTION_WEIGHT_jokerClash(rank) ==
    IF rank = JokerRank THEN Len(RANKS) ELSE Len(RANKS) - (IndexOfRank(rank) - 1)

\* Faulty variant: the ordinary ranks keep their normal order under revolution.
REVOLUTION_WEIGHT_notReversed(rank) ==
    IF rank = JokerRank THEN Len(RANKS) + 1 ELSE IndexOfRank(rank) + 1

\* REVOLUTION_WEIGHT.set(rank, rank === 16 ? RANKS.length + 1 : RANKS.length - index)
REVOLUTION_WEIGHT(rank) ==
    IF rank = JokerRank THEN Len(RANKS) + 1 ELSE Len(RANKS) - (IndexOfRank(rank) - 1)

\* Map.get(rank) ?? rank: a rank outside the table weighs as itself
getRankWeight(rank, revolution) ==
    IF revolution
    THEN (IF rank \in Range(RANKS) THEN REVOLUTION_WEIGHT(rank) ELSE rank)
    ELSE (IF rank \in Range(RANKS) THEN NORMAL_WEIGHT(rank) ELSE rank)

-----------------------------------------------------------------------------
(* Cards, sorting and signatures.                                           *)

Suits == {"spade", "heart", "diamond", "club", "joker"}

\* String.prototype.localeCompare on the five suit names: alphabetical
SuitOrder(suit) ==
    CASE suit = "club" -> 1 [] suit = "diamond" -> 2 [] suit = "heart" -> 3
      [] suit = "joker" -> 4 [] suit = "spade" -> 5

\* Array.prototype.sort is stable: the sorted array holds the elements by
\* ascending key, elements of equal key in their original order.  A sequence
\* is sorted by the integer keys given beside it; SortedPlace(keys, i) is the
\* place the i-th element takes.
SortedPlace(keys, i) ==
    Cardinality({j \in 1..Len(keys) : keys[j] < keys[i] \/ (keys[j] = keys[i] /\ j <= i)})

StableSort(s, keys) ==
    Array([p \in 1..Len(s) |-> s[CHOOSE i \in 1..Len(s) : SortedPlace(keys, i) = p]])

sortCards(cards, revolution) ==
    StableSort(cards, Array([i \in 1..Len(cards) |-> getRankWeight(cards[i].rank, revolution)]))

RECURSIVE Join(_, _)
Join(strs, sep) ==
    IF strs = <<>> THEN ""
    ELSE IF Len(strs) = 1 THEN strs[1]
    ELSE strs[1] \o sep \o Join(Tail(strs), sep)

\* sort by rank, then by suit.localeCompare; `${rank}${suit}` joined by "|"
stringifyCards(cards) ==
    LET sorted == StableSort(cards, Array([i \in 1..Len(cards) |->
                                              cards[i].rank * 10 + SuitOrder(cards[i].suit)]))
    IN  Join(Array([i \in 1..Len(sorted) |-> ToString(sorted[i].rank) \o sorted[i].suit]), "|")

\* hand.filter(card => !ids.has(card.id))
removeCards(h, cardsToRemove) ==
    LET ids == {cardsToRemove[i].id : i \in 1..Len(cardsToRemove)}
    IN  SelectSeq(h, LAMBDA card : card.id \notin ids)

-----------------------------------------------------------------------------
(* Rationals in lowest terms, for strength and the scores.                  *)

RECURSIVE GCD(_, _)
GCD(a, b) == IF b = 0 THEN a ELSE GCD(b, a % b)

Abs(x) == IF x < 0 THEN -x ELSE x

Rat(n, d) == LET g == GCD(Abs(n), d) IN [n |-> n \div g, d |-> d \div g]   \* d > 0

RInt(k) == [n |-> k, d |-> 1]

RAdd(a, b) == Rat(a.n * b.d + b.n * a.d, a.d * b.d)

RLe(a, b) == a.n * b.d <= b.n * a.d

RLt(a, b) == a.n * b.d < b.n * a.d

-----------------------------------------------------------------------------
(* Combinations.                                                            *)

\* utils.ts buildCombination: cards sorted by weight, strength = mean weight
buildCombination(type, cards, revolution) ==
    LET sorted == sortCards(cards, revolution)
    IN  [type |-> type,
         cards |-> sorted,
         strength |-> Rat(SumSeq(Array([i \in 1..Len(sorted) |->
                                            getRankWeight(sorted[i].rank, revolution)])),
                          Len(sorted))]

generateSingleCombinations(h, revolution) ==
    Array([i \in 1..Len(h) |-> buildCombination("single", <<h[i]>>, revolution)])

\* groupByRank: a Map keeps its keys in insertion order, so the groups come
\* in the order in which their rank first appears in the hand.
RanksInOrder(cards) ==
    LET firsts == SelectSeq(Array([i \in 1..Len(cards) |-> i]),
                            LAMBDA i : \A j \in 1..(i - 1) : cards[j].rank # cards[i].rank)
    IN  Array([k \in 1..Len(firsts) |-> cards[firsts[k]].rank])

groupByRank(cards) ==
    LET rs == RanksInOrder(cards)
    IN  Array([k \in 1..Len(rs) |-> SelectSeq(cards, LAMBDA c : c.rank = rs[k])])

\* one combination per rank group of at least `size` cards: its first `size` cards
generateGroupCombinations(h, size, type, revolution) ==
    LET groups == groupByRank(h)
        big == SelectSeq(groups, LAMBDA cards : Len(cards) >= size)
    IN  Array([k \in 1..Len(big) |-> buildCombination(type, Take(big[k], size), revolution)])

\* Faulty variant: the joker / rank >= 15 test of line 124 is missing.
SequenceCards_all(h) == h

\* The cards that can form runs: jokers and ranks >= 15 are skipped.
SequenceCards(h) == SelectSeq(h, LAMBDA card : ~(card.suit = "joker" \/ card.rank >= TwoRank))

\* perSuit is a Map: the suits in the order in which they first appear
SuitsInOrder(cards) ==
    LET firsts == SelectSeq(Array([i \in 1..Len(cards) |-> i]),
                            LAMBDA i : \A j \in 1..(i - 1) : cards[j].suit # cards[i].suit)
    IN  Array([k \in 1..Len(firsts) |-> cards[firsts[k]].suit])

\* The inner loop (j) of generateSequenceCombinations from position j on, with
\* the run collected so far; returns the combinations it pushes.
RECURSIVE ScanRun(_, _, _, _, _)
ScanRun(sorted, j, sequence, lastRank, revolution) ==
    IF j > Len(sorted) THEN <<>>
    ELSE LET card == sorted[j] IN
         IF card.rank = lastRank
         THEN ScanRun(sorted, j + 1, sequence, lastRank, revolution)          \* continue
         ELSE IF card.rank = lastRank + 1
         THEN LET longer == Append(sequence, card)
              IN  (IF Len(longer) >= MinSequence
                   THEN <<buildCombination("sequence", longer, revolution)>>
                   ELSE <<>>)
                  \o ScanRun(sorted, j + 1, longer, card.rank, revolution)
         ELSE <<>>                                                            \* break

\* the outer loop (i) over one suit's cards, sorted by weight
SuitSequences(cards, revolution) ==
    LET sorted == sortCards(cards, revolution)
    IN  Flatten(Array([i \in 1..Len(sorted) |->
                    ScanRun(sorted, i + 1, <<sorted[i]>>, sorted[i].rank, revolution)]))

generateSequenceCombinations(h, revolution) ==
    LET usable == SequenceCards(h)
        suits == SuitsInOrder(usable)
    IN  Flatten(Array([k \in 1..Len(suits) |->
                    SuitSequences(SelectSeq(usable, LAMBDA c : c.suit = suits[k]), revolution)]))

comboKey(combo) == combo.type \o ":" \o stringifyCards(combo.cards)

\* Faulty variant: no deduplication, every combination is kept.
Unique_keepAll(combos) == combos

\* The Map `unique`: the first combination of each key, in insertion order.
Unique(combos) ==
    LET firsts == SelectSeq(Array([i \in 1..Len(combos) |-> i]),
                            LAMBDA i : \A j \in 1..(i - 1) :
                                           comboKey(combos[j]) # comboKey(combos[i]))
    IN  Array([k \in 1..Len(firsts) |-> combos[firsts[k]]])

generateAllPotentialCombinations(h, revolution) ==
    LET singles == generateSingleCombinations(h, revolution)
        pairs == generateGroupCombinations(h, 2, "pair", revolution)
        triples == generateGroupCombinations(h, 3, "triple", revolution)
        bombs == generateGroupCombinations(h, 4, "bomb", revolution)
        sequences == generateSequenceCombinations(h, revolution)
    IN  Unique(singles \o pairs \o triples \o sequences \o bombs)

-----------------------------------------------------------------------------
(* Legality filter.                                                         *)

\* Faulty variant: an equal top card beats (>= for > in line 102).
combinationBeats_orEqual(candidate, current, revolution) ==
    IF candidate.type = "bomb" /\ current.type # "bomb" THEN TRUE
    ELSE IF candidate.type # current.type THEN FALSE
    ELSE IF Len(candidate.cards) # Len(current.cards) THEN FALSE
    ELSE getRankWeight(candidate.cards[Len(candidate.cards)].rank, revolution)
             >= getRankWeight(current.cards[Len(current.cards)].rank, revolution)

combinationBeats(candidate, current, revolution) ==
    IF candidate.type = "bomb" /\ current.type # "bomb" THEN TRUE
    ELSE IF candidate.type # current.type THEN FALSE
    ELSE IF Len(candidate.cards) # Len(current.cards) THEN FALSE
    ELSE getRankWeight(candidate.cards[Len(candidate.cards)].rank, revolution)
             > getRankWeight(current.cards[Len(current.cards)].rank, revolution)

generateLegalCombinations(h, field) ==
    LET revolution == field.revolution
        allCombos == generateAllPotentialCombinations(h, revolution)
    IN  IF field.currentCombination = None THEN allCombos
        ELSE SelectSeq(allCombos, LAMBDA combo :
                 IF combo.type = "bomb" /\ field.currentCombination.type # "bomb"
                 THEN TRUE
                 ELSE combinationBeats(combo, field.currentCombination, revolution))

-----------------------------------------------------------------------------
(* Turn horizon estimator.  The memo Map is a function from keys to turns,  *)
(* threaded through the recursion: a call returns its result and the memo   *)
(* as it leaves it.                                                         *)

memoKey(h, revolution) == (IF revolution THEN "R" ELSE "N") \o ":" \o stringifyCards(h)

RECURSIVE estimateMinimumTurnsMemo(_, _, _)
RECURSIVE EstimateLoop(_, _, _, _, _, _)
RECURSIVE EstimateNext(_, _, _, _, _, _)

\* Faulty variant: line 38 stores hand.length, the starting value, instead of best.
EstimateLoop_storesLength(h, revolution, combinations, i, best, memo) ==
    IF i > Len(combinations)
    THEN [turns |-> best, memo |-> (memoKey(h, revolution) :> Len(h)) @@ memo]
    ELSE EstimateNext(h, revolution, combinations, i, best,
                      estimateMinimumTurnsMemo(removeCards(h, combinations[i].cards),
                                               revolution, memo))

\* lines 31-39: the for loop from combination i on, then memo.set and return
EstimateLoop(h, revolution, combinations, i, best, memo) ==
    IF i > Len(combinations)
    THEN [turns |-> best, memo |-> (memoKey(h, revolution) :> best) @@ memo]
    ELSE EstimateNext(h, revolution, combinations, i, best,
                      estimateMinimumTurnsMemo(removeCards(h, combinations[i].cards),
                                               revolution, memo))

\* Faulty variant: the test of line 34 is missing, the last combination decides.
EstimateNext_keepsLast(h, revolution, combinations, i, best, sub) ==
    EstimateLoop(h, revolution, combinations, i + 1, 1 + sub.turns, sub.memo)

\* lines 33-36: sub is what the recursive call returned and left in the memo
EstimateNext(h, revolution, combinations, i, best, sub) ==
    IF 1 + sub.turns < best
    THEN EstimateLoop(h, revolution, combinations, i + 1, 1 + sub.turns, sub.memo)
    ELSE EstimateLoop(h, revolution, combinations, i + 1, best, sub.memo)

\* Faulty variant: the empty hand counts as one more turn.
estimateMinimumTurnsMemo_noBaseCase(h, revolution, memo) ==
    LET key == memoKey(h, revolution)
    IN  CASE Len(h) = 0 -> [turns |-> 1, memo |-> memo]
          [] Len(h) > 0 /\ key \in DOMAIN memo -> [turns |-> memo[key], memo |-> memo]
          [] OTHER -> EstimateLoop(h, revolution,
                                   generateAllPotentialCombinations(h, revolution),
                                   1, Len(h), memo)

\* lines 21-30: empty hand, memo hit, or the loop with best = hand.length
estimateMinimumTurnsMemo(h, revolution, memo) ==
    LET key == memoKey(h, revolution)
    IN  CASE Len(h) = 0 -> [turns |-> 0, memo |-> memo]
          [] Len(h) > 0 /\ key \in DOMAIN memo -> [turns |-> memo[key], memo |-> memo]
          [] OTHER -> EstimateLoop(h, revolution,
                                   generateAllPotentialCombinations(h, revolution),
                                   1, Len(h), memo)

EmptyMemo == [k \in {} |-> 0]

\* a call that starts from a fresh memo, as evaluateCombination makes it
estimateMinimumTurns(h, revolution) == estimateMinimumTurnsMemo(h, revolution, EmptyMemo).turns

-----------------------------------------------------------------------------
(* Move evaluator.                                                          *)

combinationPriority(type) ==
    CASE type = "single" -> 1 [] type = "pair" -> 2 [] type = "triple" -> 3
      [] type = "sequence" -> 3 [] type = "bomb" -> 5

Weights(cards, revolution) ==
    Array([i \in 1..Len(cards) |-> getRankWeight(cards[i].rank, revolution)])

computeControlScore(combo, h, field) ==
    LET revolution == field.revolution
        highestInHand == MaxSeq(Weights(h, revolution), 0)
        highestInCombo == MaxSeq(Weights(combo.cards, revolution), 0)
        ratioTimes12 == Rat(highestInCombo * 12, Max2(1, highestInHand))
    IN  RAdd(ratioTimes12,
             RInt((IF field.currentCombination = None THEN 4 ELSE 0)
                  + (IF combo.type = "bomb" THEN 8 ELSE 0)
                  + (IF combo.type = "sequence" /\ Len(combo.cards) >= 4 THEN 5 ELSE 0)))

computePressureScore(combo, st) ==
    LET criticalOpponents == SelectSeq(st.opponents, LAMBDA o : o.remainingCards <= 3)
    IN  IF Len(criticalOpponents) = 0 THEN 0
        ELSE SumSeq(Array([i \in 1..Len(criticalOpponents) |->
                              12 - criticalOpponents[i].remainingCards * 2]))
             + (IF combo.type # "single" THEN 3 ELSE 0)
             + (IF combo.type = "bomb" THEN 6 ELSE 0)

\* Faulty variant: coverage is left out of the sum of line 82.
computeShapeScore_noCoverage(combo, remainingTurns) ==
    LET smoothness == Max2(0, 12 - remainingTurns * 2)
    IN  Rat(smoothness * 10 - remainingTurns * 13, 10)

\* coverage + smoothness - remainingTurns * 1.3
computeShapeScore(combo, remainingTurns) ==
    LET coverage == combinationPriority(combo.type) * 6 + Len(combo.cards) * 2
        smoothness == Max2(0, 12 - remainingTurns * 2)
    IN  Rat((coverage + smoothness) * 10 - remainingTurns * 13, 10)

computeEndgameBonus(remaining, opponents) ==
    IF Len(remaining) = 0 THEN 120
    ELSE IF Len(opponents) = 0 THEN (IF Len(remaining) <= 2 THEN 20 ELSE 0)
    ELSE LET smallestOpponent == MinSeq(Array([i \in 1..Len(opponents) |->
                                                       opponents[i].remainingCards]))
         IN  IF Len(remaining) <= 2 /\ smallestOpponent > Len(remaining) THEN 25
             ELSE IF Len(remaining) <= 4 THEN 12
             ELSE 0

\* `${rank}${suit[0].toUpperCase()}` of each card, with the type
describeCombination(combination) ==
    <<combination.type,
      Array([i \in 1..Len(combination.cards) |->
                <<combination.cards[i].rank,
                  CASE combination.cards[i].suit = "spade" -> "S"
                    [] combination.cards[i].suit = "heart" -> "H"
                    [] combination.cards[i].suit = "diamond" -> "D"
                    [] combination.cards[i].suit = "club" -> "C"
                    [] combination.cards[i].suit = "joker" -> "J">>])>>

\* Faulty variant: the endgame bonus is left out of the total of line 111.
evaluateCombination_dropsEndgame(h, combo, st) ==
    LET remaining == removeCards(h, combo.cards)
        revolution == st.field.revolution
        remainingTurns == estimateMinimumTurns(remaining, revolution)
        shapeScore == computeShapeScore(combo, remainingTurns)
        controlScore == computeControlScore(combo, h, st.field)
        pressureScore == computePressureScore(combo, st)
        endgameBonus == computeEndgameBonus(remaining, st.opponents)
        total == RAdd(RAdd(shapeScore, controlScore), RInt(pressureScore))
    IN  [explanation |-> <<"select", describeCombination(combo), remainingTurns>>,
         combination |-> combo,
         score |-> total,
         breakdown |-> [shape |-> shapeScore, control |-> controlScore,
                        pressure |-> RInt(pressureScore), endgame |-> RInt(endgameBonus)]]

evaluateCombination(h, combo, st) ==
    LET remaining == removeCards(h, combo.cards)
        revolution == st.field.revolution
        remainingTurns == estimateMinimumTurns(remaining, revolution)
        shapeScore == computeShapeScore(combo, remainingTurns)
        controlScore == computeControlScore(combo, h, st.field)
        pressureScore == computePressureScore(combo, st)
        endgameBonus == computeEndgameBonus(remaining, st.opponents)
        total == RAdd(RAdd(shapeScore, controlScore), RInt(pressureScore + endgameBonus))
    IN  [explanation |-> <<"select", describeCombination(combo), remainingTurns>>,
         combination |-> combo,
         score |-> total,
         breakdown |-> [shape |-> shapeScore, control |-> controlScore,
                        pressure |-> RInt(pressureScore), endgame |-> RInt(endgameBonus)]]

\* Faulty variant: patience has no floor at 0 (Math.max of line 139 missing).
evaluatePass_noFloor(st) ==
    LET threat == SumSeq(Array([i \in 1..Len(st.opponents) |->
                                  IF st.opponents[i].remainingCards <= 2 THEN 18
                                  ELSE IF st.opponents[i].remainingCards <= 4 THEN 10
                                  ELSE IF st.opponents[i].remainingCards <= 7 THEN 4
                                  ELSE 0]))
        patience == 12 - st.field.passesInRow * 3
        score == patience - threat
    IN  [combination |-> [type |-> "single", cards |-> <<>>, strength |-> RInt(0)],
         score |-> RInt(score),
         breakdown |-> [patience |-> RInt(patience), threat |-> RInt(-threat)],
         explanation |-> <<"pass-and-watch">>]

evaluatePass(st) ==
    LET threat == SumSeq(Array([i \in 1..Len(st.opponents) |->
                                  IF st.opponents[i].remainingCards <= 2 THEN 18
                                  ELSE IF st.opponents[i].remainingCards <= 4 THEN 10
                                  ELSE IF st.opponents[i].remainingCards <= 7 THEN 4
                                  ELSE 0]))
        patience == Max2(0, 12 - st.field.passesInRow * 3)
        score == patience - threat
    IN  [combination |-> [type |-> "single", cards |-> <<>>, strength |-> RInt(0)],
         score |-> RInt(score),
         breakdown |-> [patience |-> RInt(patience), threat |-> RInt(-threat)],
         explanation |-> <<"pass-and-watch">>]

-----------------------------------------------------------------------------
(* DaifugoNpc.chooseMove.                                                   *)

\* evaluations.sort((a, b) => b.score - a.score): stable, descending by score
RECURSIVE InsertByScore(_, _)
InsertByScore(sorted, x) ==
    IF sorted = <<>> THEN <<x>>
    ELSE IF RLe(x.score, Head(sorted).score)
         THEN <<Head(sorted)>> \o InsertByScore(Tail(sorted), x)
         ELSE <<x>> \o sorted

RECURSIVE SortByScore(_)
SortByScore(evals) ==
    IF evals = <<>> THEN <<>>
    ELSE InsertByScore(SortByScore(SubSeq(evals, 1, Len(evals) - 1)), evals[Len(evals)])

\* reading a property of undefined throws a TypeError
Threw == [threw |-> "TypeError"]

PassMove(pass) ==
    [action |-> "pass", combination |-> None, score |-> pass.score,
     breakdown |-> pass.breakdown, explanation |-> pass.explanation]

\* Faulty variant: the margin of 2 is missing from the comparison of line 174.
Decide_noMargin(h, st, legal) ==
    LET evaluations == SortByScore(Array([i \in 1..Len(legal) |->
                                              evaluateCombination(h, legal[i], st)]))
        passScore == evaluatePass(st).score
    IN  IF evaluations = <<>> THEN Threw
        ELSE LET best == evaluations[1] IN
             IF RLe(best.score, passScore)
             THEN [action |-> "pass", combination |-> None, score |-> passScore,
                   breakdown |-> [patience |-> passScore],
                   explanation |-> <<"pass-no-strong-move">>]
             ELSE [action |-> "play", combination |-> best.combination, score |-> best.score,
                   breakdown |-> best.breakdown, explanation |-> best.explanation]

\* lines 170-190: the legal combinations evaluated, sorted, the best against the pass
Decide(h, st, legal) ==
    LET evaluations == SortByScore(Array([i \in 1..Len(legal) |->
                                              evaluateCombination(h, legal[i], st)]))
        passScore == evaluatePass(st).score
    IN  IF evaluations = <<>> THEN Threw          \* evaluations[0].score of an empty array
        ELSE LET best == evaluations[1] IN
             IF RLe(best.score, RAdd(passScore, RInt(2)))
             THEN [action |-> "pass", combination |-> None, score |-> passScore,
                   breakdown |-> [patience |-> passScore],
                   explanation |-> <<"pass-no-strong-move">>]
             ELSE [action |-> "play", combination |-> best.combination, score |-> best.score,
                   breakdown |-> best.breakdown, explanation |-> best.explanation]

\* Faulty variant: every generated combination is evaluated, legal or not.
chooseMove_unfiltered(h, st) ==
    LET legal == generateLegalCombinations(h, st.field)
    IN  IF Len(legal) = 0 THEN PassMove(evaluatePass(st))
        ELSE Decide(h, st, generateAllPotentialCombinations(h, st.field.revolution))

\* Faulty variant: the test of line 161 is missing.
chooseMove_noEmptyCheck(h, st) ==
    Decide(h, st, generateLegalCombinations(h, st.field))

\* Faulty variant: line 161 tests the hand, not the legal combinations.
chooseMove_emptyHandOnly(h, st) ==
    LET legal == generateLegalCombinations(h, st.field)
    IN  IF Len(h) = 0 THEN PassMove(evaluatePass(st))
        ELSE Decide(h, st, legal)

\* Faulty variant: a module-level counter survives the call and decides the move.
chooseMove_readsCounter(h, st) ==
    LET legal == generateLegalCombinations(h, st.field)
    IN  IF Len(legal) = 0 \/ npcSequence > 0 THEN PassMove(evaluatePass(st))
        ELSE Decide(h, st, legal)

chooseMove(h, st) ==
    LET legal == generateLegalCombinations(h, st.field)
    IN  IF Len(legal) = 0 THEN PassMove(evaluatePass(st))
        ELSE Decide(h, st, legal)

-----------------------------------------------------------------------------
(* The arguments the specifications draw.                                   *)

Card(id, rank, suit) == [id |-> id, rank |-> rank, suit |-> suit]

\* Cards of one deck with its two jokers: a heart run 11..14 with the 2 of
\* hearts above it, the four 14s, a second 2, a low card, and the jokers,
\* which share rank and suit and differ only in their id.
Deck ==
    << Card("h11", 11, "heart"), Card("h12", 12, "heart"), Card("h13", 13, "heart"),
       Card("h14", 14, "heart"), Card("h15", 15, "heart"),
       Card("c14", 14, "club"), Card("d14", 14, "diamond"), Card("s14", 14, "spade"),
       Card("d15", 15, "diamond"), Card("c3", 3, "club"),
       Card("j1", 16, "joker"), Card("j2", 16, "joker") >>

MaxHand == 4       \* cards in a hand drawn from Deck

\* the cards of a deck at the positions S, in deck order
Ascending(deck, S) == SelectSeq(deck, LAMBDA card : \E i \in S : deck[i] = card)

Reverse(s) == Array([i \in 1..Len(s) |-> s[Len(s) + 1 - i]])

\* every set of at most n cards of a deck, held in deck order and in the reverse order
HandsUpTo(deck, n) ==
    LET picks == {S \in SUBSET (1..Len(deck)) : Cardinality(S) <= n}
    IN  {Ascending(deck, S) : S \in picks} \cup {Reverse(Ascending(deck, S)) : S \in picks}

FieldCombinations(revolution) ==
    { None,
      buildCombination("single", <<Card("s12", 12, "spade")>>, revolution),
      buildCombination("single", <<Card("s15", 15, "spade")>>, revolution),
      buildCombination("pair", <<Card("s13", 13, "spade"), Card("c13", 13, "club")>>, revolution),
      buildCombination("triple", <<Card("s13", 13, "spade"), Card("c13", 13, "club"),
                                   Card("d13", 13, "diamond")>>, revolution),
      buildCombination("sequence", <<Card("s10", 10, "spade"), Card("s11", 11, "spade"),
                                     Card("s12", 12, "spade")>>, revolution),
      buildCombination("bomb", <<Card("s4", 4, "spade"), Card("h4", 4, "heart"),
                                 Card("d4", 4, "diamond"), Card("c4", 4, "club")>>, revolution),
      buildCombination("bomb", <<Card("s15", 15, "spade"), Card("h15", 15, "heart"),
                                 Card("d15", 15, "diamond"), Card("c15", 15, "club")>>, revolution) }

Opponent(id, remainingCards) == [id |-> id, remainingCards |-> remainingCards]

Table(current, revolution, passesInRow, opponents) ==
    [field |-> [currentCombination |-> current, revolution |-> revolution,
                passesInRow |-> passesInRow],
     opponents |-> opponents,
     turnCount |-> 1]

\* rateLimiter.ts: the window and the cap
windowMs == 60 * 1000

maxRequestsPerWindow == 8

\* the client keys that call
Keys == {"a", "b"}

\* the rate limiter has just been loaded: an empty store, the clock at 0
LimiterIdle ==
    /\ store = [key \in {} |-> None]
    /\ now = 0
    /\ granted = [key \in Keys |-> <<>>]

\* no roster call is under way: the module has just been loaded
RosterIdle ==
    /\ participants = <<>>
    /\ desiredCount = 0
    /\ random = <<>>
    /\ npcSequence = 0

-----------------------------------------------------------------------------
(* SpecGen: generateAllPotentialCombinations(hand, revolution).             *)

InitGen ==
    /\ hand \in HandsUpTo(Deck, MaxHand)
    /\ \E revolution \in BOOLEAN : state = Table(None, revolution, 0, <<>>)
    /\ op = "idle"
    /\ out = None
    /\ RosterIdle
    /\ LimiterIdle

Generate ==
    /\ op = "idle"
    /\ op' = "generate"
    /\ out' = generateAllPotentialCombinations(hand, state.field.revolution)
    /\ UNCHANGED <<hand, state, rosterVars, limiterVars>>

NextGen == Generate

SpecGen == InitGen /\ [][NextGen]_vars

-----------------------------------------------------------------------------
(* SpecLegal: generateLegalCombinations(hand, field).                       *)

InitLegal ==
    /\ hand \in HandsUpTo(Deck, MaxHand)
    /\ \E revolution \in BOOLEAN : \E current \in FieldCombinations(revolution) :
           state = Table(current, revolution, 0, <<>>)
    /\ op = "idle"
    /\ out = None
    /\ RosterIdle
    /\ LimiterIdle

Legal ==
    /\ op = "idle"
    /\ op' = "legal"
    /\ out' = generateLegalCombinations(hand, state.field)
    /\ UNCHANGED <<hand, state, rosterVars, limiterVars>>

NextLegal == Legal

SpecLegal == InitLegal /\ [][NextLegal]_vars

-----------------------------------------------------------------------------
(* SpecWeight: the weights of two cards of different ranks, as sortCards    *)
(* and combinationBeats compare them.                                       *)

\* one card of every rank of RANKS
RankCards == {Card("r" \o ToString(RANKS[i]), RANKS[i],
                   IF RANKS[i] = JokerRank THEN "joker" ELSE "spade") : i \in 1..Len(RANKS)}

InitWeight ==
    /\ \E a \in RankCards : \E b \in RankCards \ {a} : hand = <<a, b>>
    /\ \E revolution \in BOOLEAN : state = Table(None, revolution, 0, <<>>)
    /\ op = "idle"
    /\ out = None
    /\ RosterIdle
    /\ LimiterIdle

Weigh ==
    /\ op = "idle"
    /\ op' = "weigh"
    /\ out' = Weights(hand, state.field.revolution)
    /\ UNCHANGED <<hand, state, rosterVars, limiterVars>>

NextWeight == Weigh

SpecWeight == InitWeight /\ [][NextWeight]_vars

-----------------------------------------------------------------------------
(* SpecEst: estimateMinimumTurns(hand, revolution) with a fresh memo.       *)

\* the heart run 11..14, the four 14s, a low card and the two jokers
EstimateDeck == SelectSeq(Deck, LAMBDA card : card.id \notin {"h15", "d15"})

InitEst ==
    /\ hand \in HandsUpTo(EstimateDeck, MaxHand)
    /\ \E revolution \in BOOLEAN : state = Table(None, revolution, 0, <<>>)
    /\ op = "idle"
    /\ out = None
    /\ RosterIdle
    /\ LimiterIdle

Estimate ==
    /\ op = "idle"
    /\ op' = "estimate"
    /\ out' = estimateMinimumTurns(hand, state.field.revolution)
    /\ UNCHANGED <<hand, state, rosterVars, limiterVars>>

NextEst == Estimate

SpecEst == InitEst /\ [][NextEst]_vars

-----------------------------------------------------------------------------
(* Spec: DaifugoNpc.chooseMove(hand, state).                                *)

MaxPlayHand == 3   \* cards in a hand drawn from PlayDeck

MaxPasses == 1     \* largest passesInRow

\* the heart run 12..14 below the 2 of hearts, three 14s and the jokers
PlayDeck == SelectSeq(Deck, LAMBDA card :
                card.id \in {"h12", "h13", "h14", "h15", "c14", "d14", "j1", "j2"})

\* Hands beyond MaxPlayHand: seven cards that form no pair and no run (every
\* play is a single and leaves six more turns), the four 14s, the run 11..14.
ExtraHands ==
    { << Card("c3", 3, "club"), Card("d5", 5, "diamond"), Card("s7", 7, "spade"),
         Card("h9", 9, "heart"), Card("c11", 11, "club"), Card("d13", 13, "diamond"),
         Card("s15", 15, "spade") >>,
      SelectSeq(Deck, LAMBDA card : card.rank = 14),
      SelectSeq(Deck, LAMBDA card : card.suit = "heart" /\ card.rank < TwoRank) }

PlayFields(revolution) ==
    { None,
      buildCombination("single", <<Card("s12", 12, "spade")>>, revolution),
      buildCombination("pair", <<Card("s13", 13, "spade"), Card("c13", 13, "club")>>, revolution),
      buildCombination("bomb", <<Card("s4", 4, "spade"), Card("h4", 4, "heart"),
                                 Card("d4", 4, "diamond"), Card("c4", 4, "club")>>, revolution) }

OpponentLists ==
    { <<>>,
      <<Opponent("r1", 5), Opponent("r2", 6)>>,
      <<Opponent("r1", 2), Opponent("r2", 9)>> }

Init ==
    /\ hand \in HandsUpTo(PlayDeck, MaxPlayHand) \cup ExtraHands
    /\ \E revolution \in BOOLEAN : \E current \in PlayFields(revolution) :
       \E passesInRow \in 0..MaxPasses : \E opponents \in OpponentLists :
           state = Table(current, revolution, passesInRow, opponents)
    /\ op = "idle"
    /\ out = None
    /\ RosterIdle
    /\ LimiterIdle

\* Faulty variant: the hand is sorted in place (sort without the copy of utils.ts:51).
Choose_sortsInPlace ==
    /\ op = "idle"
    /\ op' = "choose"
    /\ out' = chooseMove(hand, state)
    /\ hand' = sortCards(hand, state.field.revolution)
    /\ UNCHANGED <<state, rosterVars, limiterVars>>

Choose ==
    /\ op = "idle"
    /\ op' = "choose"
    /\ out' = chooseMove(hand, state)
    /\ UNCHANGED <<hand, state, rosterVars, limiterVars>>

Next == Choose

Spec == Init /\ [][Next]_vars

-----------------------------------------------------------------------------
(* SpecCalls: chooseMove called twice with the same arguments, with or      *)
(* without a call of generateNpcId in between, the one function of the      *)
(* module that keeps state (npcSequence).                                   *)

InitCalls ==
    /\ hand \in HandsUpTo(PlayDeck, 2) \cup ExtraHands
    /\ \E revolution \in BOOLEAN : \E current \in PlayFields(revolution) :
       \E passesInRow \in 0..MaxPasses : \E opponents \in OpponentLists :
           state = Table(current, revolution, passesInRow, opponents)
    /\ op = "idle"
    /\ out = None
    /\ RosterIdle
    /\ LimiterIdle

\* another call between the two: an NPC id is made, its value is dropped
Between ==
    /\ op = "choose"
    /\ op' = "between"
    /\ npcSequence' = npcSequence + 1
    /\ UNCHANGED <<hand, state, out, participants, desiredCount, random, limiterVars>>

ChooseAgain ==
    /\ op \in {"choose", "between"}
    /\ op' = "again"
    /\ out' = chooseMove(hand, state)
    /\ UNCHANGED <<hand, state, rosterVars, limiterVars>>

NextCalls == Choose \/ Between \/ ChooseAgain

SpecCalls == InitCalls /\ [][NextCalls]_vars

-----------------------------------------------------------------------------
(* SpecPass: evaluatePass(state).                                           *)

PassLimit == 5      \* largest passesInRow: 12 - 3 * 5 is below the floor

MaxRemaining == 9   \* largest remainingCards of an opponent: above every band

\* up to two opponents, each with 0..MaxRemaining cards
PassOpponents ==
    {<<>>}
        \cup {<<Opponent("r1", a)>> : a \in 0..MaxRemaining}
        \cup {<<Opponent("r1", a), Opponent("r2", b)>> : a \in 0..MaxRemaining,
                                                          b \in 0..MaxRemaining}

InitPass ==
    /\ hand = <<>>
    /\ \E passesInRow \in 0..PassLimit : \E opponents \in PassOpponents :
           state = Table(None, FALSE, passesInRow, opponents)
    /\ op = "idle"
    /\ out = None
    /\ RosterIdle
    /\ LimiterIdle

Pass ==
    /\ op = "idle"
    /\ op' = "pass"
    /\ out' = evaluatePass(state)
    /\ UNCHANGED <<hand, state, rosterVars, limiterVars>>

NextPass == Pass

SpecPass == InitPass /\ [][NextPass]_vars

-----------------------------------------------------------------------------
(* SpecEndgame: computeEndgameBonus(remaining, opponents); `hand` holds the *)
(* cards that remain after the play.                                        *)

MaxResidual == 6   \* most cards left after the play

InitEndgame ==
    /\ \E n \in 0..MaxResidual : hand = Take(Deck, n)
    /\ \E opponents \in PassOpponents : state = Table(None, FALSE, 0, opponents)
    /\ op = "idle"
    /\ out = None
    /\ RosterIdle
    /\ LimiterIdle

Endgame ==
    /\ op = "idle"
    /\ op' = "endgame"
    /\ out' = computeEndgameBonus(hand, state.opponents)
    /\ UNCHANGED <<hand, state, rosterVars, limiterVars>>

NextEndgame == Endgame

SpecEndgame == InitEndgame /\ [][NextEndgame]_vars

-----------------------------------------------------------------------------
(* SpecOrder: chooseMove on every ordering of two hands of five cards: the  *)
(* hand of the test "prefers strong shedding combinations such as           *)
(* sequences" and a heart run 12..14 with two more 14s, against the test's  *)
(* opponents, on an open field and over a pair.                             *)

TestHand ==
    << Card("h5", 5, "heart"), Card("h6", 6, "heart"), Card("h7", 7, "heart"),
       Card("c9", 9, "club"), Card("d9", 9, "diamond") >>

RunHand == SelectSeq(Deck, LAMBDA card : card.id \in {"h12", "h13", "h14", "c14", "d14"})

\* the opponents of the tests: 5 and 6 cards remaining
TestOpponents == <<Opponent("r1", 5), Opponent("r2", 6)>>

\* every order in which an array can hold the cards
Orderings(cards) ==
    {Array([i \in 1..Len(cards) |-> cards[p[i]]]) : p \in Permutations(1..Len(cards))}

InitOrder ==
    /\ hand \in Orderings(TestHand) \cup Orderings(RunHand)
    /\ \E revolution \in BOOLEAN :
       \E current \in {None, buildCombination("pair", <<Card("s8", 8, "spade"),
                                                         Card("c8", 8, "club")>>, revolution)} :
           state = Table(current, revolution, 0, TestOpponents)
    /\ op = "idle"
    /\ out = None
    /\ RosterIdle
    /\ LimiterIdle

NextOrder == Choose

SpecOrder == InitOrder /\ [][NextOrder]_vars

-----------------------------------------------------------------------------
(* SpecOpen: chooseMove on an open field, for hands of one to nine cards    *)
(* that form no pair and no run.                                            *)

OpenHand ==
    << Card("c3", 3, "club"), Card("d4", 4, "diamond"), Card("s5", 5, "spade"),
       Card("h6", 6, "heart"), Card("c7", 7, "club"), Card("d8", 8, "diamond"),
       Card("s9", 9, "spade"), Card("h10", 10, "heart"), Card("c11", 11, "club") >>

InitOpen ==
    /\ \E n \in 1..Len(OpenHand) : hand = Take(OpenHand, n)
    /\ \E revolution \in BOOLEAN : \E passesInRow \in 0..MaxPasses :
       \E opponents \in OpponentLists :
           state = Table(None, revolution, passesInRow, opponents)
    /\ op = "idle"
    /\ out = None
    /\ RosterIdle
    /\ LimiterIdle

NextOpen == Choose

SpecOpen == InitOpen /\ [][NextOpen]_vars

-----------------------------------------------------------------------------
(* NPC names (names.ts) and the roster (ensureNpcParticipants).  The two    *)
(* name lists are cut to their first entries, written in Latin letters; the *)
(* attempt limit stays the product of their lengths.                        *)

familyNames == <<"Sato", "Suzuki">>

givenNames == <<"Taro", "Aoi">>

\* the k-th value (from 0) that the random source returns
RandomAt(source, k) == source[(k % Len(source)) + 1]

\* Math.floor(random() * length) for a value r = n/d of [0, 1)
FloorTimes(r, length) == (r.n * length) \div r.d

\* lines 59-66: the first unused NPC<suffix>, counting from usedNames.size + 1
RECURSIVE FallbackSuffix(_, _)
FallbackSuffix(usedNames, suffix) ==
    IF ("NPC" \o ToString(suffix)) \in usedNames
    THEN FallbackSuffix(usedNames, suffix + 1)
    ELSE suffix

FallbackName(usedNames, drawn) ==
    LET fallback == "NPC" \o ToString(FallbackSuffix(usedNames, Cardinality(usedNames) + 1))
    IN  [name |-> fallback, usedNames |-> usedNames \cup {fallback}, drawn |-> drawn]

RECURSIVE NameLoop(_, _, _, _)

\* Faulty variant: the name found is not added to usedNames (line 53 missing).
NameLoop_noAdd(usedNames, source, drawn, i) ==
    IF i >= Len(familyNames) * Len(givenNames)
    THEN FallbackName(usedNames, drawn)
    ELSE LET family == familyNames[FloorTimes(RandomAt(source, drawn), Len(familyNames)) + 1]
             given == givenNames[FloorTimes(RandomAt(source, drawn + 1), Len(givenNames)) + 1]
             name == family \o " " \o given
         IN  IF name \notin usedNames
             THEN [name |-> name, usedNames |-> usedNames, drawn |-> drawn + 2]
             ELSE NameLoop(usedNames, source, drawn + 2, i + 1)

\* lines 48-57: up to familyNames.length * givenNames.length attempts, two
\* draws each; `drawn` counts the values the source has returned so far
NameLoop(usedNames, source, drawn, i) ==
    IF i >= Len(familyNames) * Len(givenNames)
    THEN FallbackName(usedNames, drawn)
    ELSE LET family == familyNames[FloorTimes(RandomAt(source, drawn), Len(familyNames)) + 1]
             given == givenNames[FloorTimes(RandomAt(source, drawn + 1), Len(givenNames)) + 1]
             name == family \o " " \o given
         IN  IF name \notin usedNames
             THEN [name |-> name, usedNames |-> usedNames \cup {name}, drawn |-> drawn + 2]
             ELSE NameLoop(usedNames, source, drawn + 2, i + 1)

\* returns the name with usedNames as the call leaves it
generateJapaneseNpcName(usedNames, source, drawn) == NameLoop(usedNames, source, drawn, 0)

Digits36 ==
    << "0", "1", "2", "3", "4", "5", "6", "7", "8", "9", "a", "b", "c", "d", "e", "f",
       "g", "h", "i", "j", "k", "l", "m", "n", "o", "p", "q", "r", "s", "t", "u", "v",
       "w", "x", "y", "z" >>

\* Number.prototype.toString(36)
RECURSIVE ToString36(_)
ToString36(n) ==
    IF n < Len(Digits36) THEN Digits36[n + 1]
    ELSE ToString36(n \div Len(Digits36)) \o Digits36[(n % Len(Digits36)) + 1]

\* generateNpcId with the counter at `sequence`: the id made and the counter after it
generateNpcId(sequence) ==
    [id |-> "npc-" \o ToString36(sequence + 1), npcSequence |-> sequence + 1]

RECURSIVE FillSeats(_, _, _, _, _, _)

\* Faulty variant: the loop of line 208 runs while result.length <= desiredCount.
FillSeats_oneMore(result, usedNames, count, source, drawn, sequence) ==
    IF ~(Len(result) <= count)
    THEN [result |-> result, npcSequence |-> sequence]
    ELSE LET named == generateJapaneseNpcName(usedNames, source, drawn)
             made == generateNpcId(sequence)
         IN  FillSeats(Append(result, [id |-> made.id, name |-> named.name,
                                       isHuman |-> FALSE, controller |-> "npc"]),
                       named.usedNames, count, source, named.drawn, made.npcSequence)

\* lines 208-216: the while loop
FillSeats(result, usedNames, count, source, drawn, sequence) ==
    IF ~(Len(result) < count)
    THEN [result |-> result, npcSequence |-> sequence]
    ELSE LET named == generateJapaneseNpcName(usedNames, source, drawn)
             made == generateNpcId(sequence)
         IN  FillSeats(Append(result, [id |-> made.id, name |-> named.name,
                                       isHuman |-> FALSE, controller |-> "npc"]),
                       named.usedNames, count, source, named.drawn, made.npcSequence)

\* the roster returned and the counter after the call
ensureNpcParticipants(players, count, source, sequence) ==
    FillSeats(players, {players[i].name : i \in 1..Len(players)}, count, source, 0, sequence)

-----------------------------------------------------------------------------
(* SpecRoster: ensureNpcParticipants(participants, desiredCount, random),   *)
(* called again and again with the same arguments and a random source that  *)
(* returns the same values.                                                 *)

MaxSeats == 4          \* largest desiredCount

MaxNpcSequence == 10   \* no further call once the counter has reached it

Human(id, name) == [id |-> id, name |-> name, isHuman |-> TRUE, controller |-> "human"]

\* rosters with pairwise distinct names, some of them names the generator makes
Rosters ==
    { <<>>,
      <<Human("p1", "Player1")>>,
      <<Human("p1", "Sato Taro")>>,
      <<Human("p1", "NPC3")>>,
      <<Human("p1", "Player1"), Human("p2", "NPC2")>>,
      <<Human("p1", "Player1"),
        [id |-> "npc-1", name |-> "Suzuki Aoi", isHuman |-> FALSE, controller |-> "npc"]>> }

RandomValues == {Rat(0, 1), Rat(1, 2)}

\* constant sources, sources of period 2, and one of period 3
RandomSources ==
    {<<a>> : a \in RandomValues}
        \cup {<<a, b>> : a \in RandomValues, b \in RandomValues}
        \cup {<<Rat(0, 1), Rat(0, 1), Rat(1, 2)>>}

InitRoster ==
    /\ participants \in Rosters
    /\ desiredCount \in 0..MaxSeats
    /\ random \in RandomSources
    /\ npcSequence = 0
    /\ hand = <<>>
    /\ state = Table(None, FALSE, 0, <<>>)
    /\ op = "idle"
    /\ out = None
    /\ LimiterIdle

Ensure ==
    /\ npcSequence < MaxNpcSequence
    /\ LET call == ensureNpcParticipants(participants, desiredCount, random, npcSequence)
       IN  /\ out' = call.result
           /\ npcSequence' = call.npcSequence
    /\ op' = "ensure"
    /\ UNCHANGED <<hand, state, participants, desiredCount, random, limiterVars>>

NextRoster == Ensure

SpecRoster == InitRoster /\ [][NextRoster]_vars

-----------------------------------------------------------------------------
(* SpecLimiter: canProceed(key) called by two clients while the clock moves *)
(* forward.  Calls happen at the start of a window length and one           *)
(* millisecond after it.                                                    *)

MaxWindows == 1   \* the clock stops one millisecond after this many window lengths

CallTimes == {k * windowMs + e : k \in 0..MaxWindows, e \in {0, 1}}

\* lines 12-24 for a call that finds the clock at `now`
canProceed(key) ==
    /\ IF key \notin DOMAIN store \/ store[key].expiresAt < now
       THEN /\ store' = (key :> [count |-> 1, expiresAt |-> now + windowMs]) @@ store
            /\ out' = TRUE
       ELSE IF store[key].count >= maxRequestsPerWindow
       THEN /\ store' = store
            /\ out' = FALSE
       ELSE /\ store' = [store EXCEPT ![key].count = @ + 1]
            /\ out' = TRUE
    /\ granted' = IF out' THEN [granted EXCEPT ![key] = Append(@, now)] ELSE granted
    /\ op' = "canProceed"
    /\ UNCHANGED <<now, hand, state, rosterVars>>

CanProceed == \E key \in Keys : canProceed(key)

\* time passes between two calls
AdvanceClock ==
    /\ \E later \in CallTimes : later > now /\ now' = later
    /\ UNCHANGED <<store, granted, op, out, hand, state, rosterVars>>

InitLimiter ==
    /\ LimiterIdle
    /\ RosterIdle
    /\ hand = <<>>
    /\ state = Table(None, FALSE, 0, <<>>)
    /\ op = "idle"
    /\ out = None

NextLimiter == CanProceed \/ AdvanceClock

SpecLimiter == InitLimiter /\ [][NextLimiter]_vars

-----------------------------------------------------------------------------
(* Properties.                                                              *)

Legal_ == generateLegalCombinations(hand, state.field)

Generated_ == generateAllPotentialCombinations(hand, state.field.revolution)

Ids(cards) == {cards[i].id : i \in 1..Len(cards)}

\* C1: when chooseMove returns a play, the combination it returns is one of
\* generateLegalCombinations(hand, state.field), and its cards are cards of
\* the hand.
C1_PlayIsLegal ==
    (op = "choose" /\ out # Threw /\ out.action = "play") =>
        /\ \E i \in 1..Len(Legal_) : Legal_[i] = out.combination
        /\ Range(out.combination.cards) \subseteq Range(hand)

\* a play over a combination on the field that rules out part of what the hand can form
C1_Witness ==
    /\ op = "choose" /\ out # Threw /\ out.action = "play"
    /\ state.field.currentCombination # None
    /\ Len(Legal_) < Len(Generated_)

\* C2: chooseMove does not throw and returns a move whose action is play or
\* pass, with a combination exactly when it is a play.
C2_Total ==
    op = "choose" =>
        /\ out # Threw
        /\ out.action \in {"play", "pass"}
        /\ (out.action = "play" <=> out.combination # None)

\* the empty hand with no opponents
C2_Witness ==
    /\ op = "choose" /\ hand = <<>> /\ state.opponents = <<>>
    /\ out # Threw /\ out.action = "pass"

\* C3: when no combination is legal, chooseMove passes and the score it
\* returns is the score of evaluatePass for the table state.
C3_ForcedPass ==
    (op = "choose" /\ Len(Legal_) = 0) =>
        /\ out # Threw
        /\ out.action = "pass"
        /\ out.score = evaluatePass(state).score

\* a hand with cards, none of whose combinations beats the field
C3_Witness ==
    /\ op = "choose" /\ Len(hand) > 0 /\ Len(Legal_) = 0
    /\ state.field.currentCombination # None
    /\ out # Threw /\ out.action = "pass"

Greatest_(scores) == CHOOSE m \in scores : \A x \in scores : RLe(x, m)

LegalScores_(legal) ==
    {evaluateCombination(hand, legal[i], state).score : i \in 1..Len(legal)}

\* C4: with a legal combination, chooseMove plays exactly when the highest
\* total score of the legal combinations is greater than passScore + 2; the
\* combination it plays has that highest score, and a pass returns passScore.
C4_DecisionRule ==
    (op = "choose" /\ Len(Legal_) > 0) =>
        LET passScore == evaluatePass(state).score
            bestScore == Greatest_(LegalScores_(Legal_))
        IN  /\ out # Threw
            /\ (out.action = "play" <=> RLt(RAdd(passScore, RInt(2)), bestScore))
            /\ (out.action = "play" =>
                   /\ out.combination \in Range(Legal_)
                   /\ evaluateCombination(hand, out.combination, state).score = bestScore
                   /\ out.score = bestScore)
            /\ (out.action = "pass" => out.score = passScore)

\* a pass although a combination is legal: the best play is within the margin
C4_Witness ==
    /\ op = "choose" /\ Len(Legal_) > 0
    /\ out # Threw /\ out.action = "pass"
    /\ RLt(evaluatePass(state).score, Greatest_(LegalScores_(Legal_)))

TopWeight_(c, revolution) == getRankWeight(c.cards[Len(c.cards)].rank, revolution)

LegalRef_(c, current, revolution) ==
    \/ c.type = "bomb" /\ current.type # "bomb"
    \/ /\ c.type = current.type
       /\ Len(c.cards) = Len(current.cards)
       /\ TopWeight_(c, revolution) > TopWeight_(current, revolution)

\* C5: generateLegalCombinations returns every generated combination when
\* the field is empty; otherwise exactly the generated combinations that are
\* a bomb over a non-bomb, or have the type and the length of the current
\* combination and a top card of greater weight.  Over a bomb it returns
\* only bombs of four cards of greater weight.
C5_LegalFilter ==
    op = "legal" =>
        LET current == state.field.currentCombination
            revolution == state.field.revolution
        IN  IF current = None THEN out = Generated_
            ELSE /\ out = SelectSeq(Generated_, LAMBDA c : LegalRef_(c, current, revolution))
                 /\ current.type = "bomb" =>
                        \A i \in 1..Len(out) :
                            /\ out[i].type = "bomb" /\ Len(out[i].cards) = 4
                            /\ TopWeight_(out[i], revolution) > TopWeight_(current, revolution)

\* a bomb of the hand returned over a bomb on the field, other combinations ruled out
C5_Witness ==
    /\ op = "legal"
    /\ state.field.currentCombination # None
    /\ state.field.currentCombination.type = "bomb"
    /\ Len(out) = 1 /\ out[1].type = "bomb"
    /\ Len(Generated_) > 1

CardBag_(cards) ==
    [p \in {<<cards[k].rank, cards[k].suit>> : k \in 1..Len(cards)} |->
        Cardinality({k \in 1..Len(cards) : <<cards[k].rank, cards[k].suit>> = p})]

\* C6: generateAllPotentialCombinations returns no two combinations of the
\* same type with the same multiset of (rank, suit) cards.
C6_NoDuplicateSignature ==
    op = "generate" =>
        \A i, j \in 1..Len(out) :
            i # j => ~(out[i].type = out[j].type /\ CardBag_(out[i].cards) = CardBag_(out[j].cards))

\* a hand with both jokers: one single of a joker is returned
C6_Witness ==
    /\ op = "generate"
    /\ {"j1", "j2"} \subseteq Ids(hand)
    /\ Cardinality({i \in 1..Len(out) : out[i].type = "single"
                                          /\ out[i].cards[1].suit = "joker"}) = 1

SameRank_(cards) == \A i, j \in 1..Len(cards) : cards[i].rank = cards[j].rank

WellFormed_(c, revolution) ==
    /\ \A i \in 1..(Len(c.cards) - 1) :
           getRankWeight(c.cards[i].rank, revolution)
               <= getRankWeight(c.cards[i + 1].rank, revolution)
    /\ CASE c.type = "single" -> Len(c.cards) = 1
         [] c.type = "pair" -> Len(c.cards) = 2 /\ SameRank_(c.cards)
         [] c.type = "triple" -> Len(c.cards) = 3 /\ SameRank_(c.cards)
         [] c.type = "bomb" -> Len(c.cards) = 4 /\ SameRank_(c.cards)
         [] c.type = "sequence" ->
               LET ranks == {c.cards[i].rank : i \in 1..Len(c.cards)} IN
               /\ Len(c.cards) >= 3
               /\ \A i, j \in 1..Len(c.cards) : c.cards[i].suit = c.cards[j].suit
               /\ \A i \in 1..Len(c.cards) : c.cards[i].suit # "joker" /\ c.cards[i].rank < 15
               /\ Cardinality(ranks) = Len(c.cards)
               /\ \E low \in ranks : ranks = low..(low + Len(c.cards) - 1)

\* C7: every generated combination is well-formed for its type: 1 card for a
\* single, 2 / 3 / 4 cards of one rank for a pair / triple / bomb, and for a
\* sequence at least 3 cards of one suit with consecutive ranks, no joker and
\* no rank of 15 or more; its cards are in ascending weight order.
C7_WellFormed ==
    op = "generate" =>
        \A i \in 1..Len(out) : WellFormed_(out[i], state.field.revolution)

\* a sequence of four cards is generated from a hand that also holds a group
C7_Witness ==
    /\ op = "generate"
    /\ \E i \in 1..Len(out) : out[i].type = "sequence" /\ Len(out[i].cards) = 4
    /\ \E i \in 1..Len(out) : out[i].type = "single"

IsRun_(R) ==
    /\ Cardinality(R) >= 3
    /\ \A a, b \in R : a.suit = b.suit /\ (a.rank = b.rank => a = b)
    /\ \A a \in R : a.suit # "joker" /\ a.rank < 15
    /\ \E low \in {a.rank : a \in R} :
           {a.rank : a \in R} = low..(low + Cardinality(R) - 1)

\* C8: under both values of the revolution flag, for every run of three or
\* more cards of one suit with consecutive ranks in the hand, a sequence made
\* of exactly those cards is generated.
C8_SequencesExhaustive ==
    op = "generate" =>
        \A R \in SUBSET Range(hand) :
            IsRun_(R) => \E i \in 1..Len(out) :
                             out[i].type = "sequence" /\ Range(out[i].cards) = R

\* C9: for every card of the hand, a single of exactly that card is generated.
C9_EveryCardSingle ==
    op = "generate" =>
        \A k \in 1..Len(hand) :
            \E i \in 1..Len(out) : out[i].type = "single" /\ out[i].cards = <<hand[k]>>

\* C10: for a fixed revolution flag, two different ranks of 3..16 have
\* different weights.
C10_WeightInjective ==
    op = "weigh" => (hand[1].rank # hand[2].rank => out[1] # out[2])

\* the joker against rank 3 under revolution
C10_Witness ==
    /\ op = "weigh" /\ state.field.revolution
    /\ hand[1].rank = 16 /\ hand[2].rank = 3
    /\ out[1] > out[2]

\* C11 (as the code has it): under normal order rank 3 has the lowest weight
\* and the joker (rank 16) has the highest: its weight is above the weight of
\* every other rank, the 2 (rank 15) included.
C11_JokerStrongestNormal ==
    (op = "weigh" /\ ~state.field.revolution) =>
        /\ hand[1].rank = 3 => out[1] < out[2]
        /\ hand[1].rank = JokerRank => out[1] > out[2]

\* the joker weighed against the 2 under normal order
C11_Witness ==
    /\ op = "weigh" /\ ~state.field.revolution
    /\ hand[1].rank = JokerRank /\ hand[2].rank = TwoRank
    /\ out[1] > out[2]

\* C11 (as stated): under normal order rank 3 has the lowest weight and the
\* joker is second-strongest: below the 2 (rank 15), above every other rank.
C11_JokerSecondStrongest ==
    (op = "weigh" /\ ~state.field.revolution) =>
        /\ hand[1].rank = 3 => out[1] < out[2]
        /\ hand[1].rank = JokerRank =>
               IF hand[2].rank = TwoRank THEN out[1] < out[2] ELSE out[1] > out[2]

\* C12: under revolution the order of the ordinary ranks 3..15 is the reverse
\* of the normal order, and the joker has a weight above every ordinary rank.
C12_RevolutionReverses ==
    op = "weigh" =>
        LET r == hand[1].rank
            s == hand[2].rank
        IN  /\ (r < s /\ s < JokerRank) =>
                   /\ getRankWeight(r, FALSE) < getRankWeight(s, FALSE)
                   /\ getRankWeight(r, TRUE) > getRankWeight(s, TRUE)
                   /\ IF state.field.revolution THEN out[1] > out[2] ELSE out[1] < out[2]
            /\ (state.field.revolution /\ r = JokerRank) => out[1] > out[2]

\* ranks 3 and 15 weighed under revolution: 3 is the heavier
C12_Witness ==
    /\ op = "weigh" /\ state.field.revolution
    /\ hand[1].rank = 3 /\ hand[2].rank = TwoRank
    /\ out[1] > out[2]

Least_(S) == CHOOSE m \in S : \A x \in S : m <= x

\* C13: estimateMinimumTurns is 0 for the empty hand and, for a hand with
\* cards, the least of 1 + estimateMinimumTurns(hand without the cards of c)
\* over the combinations c generated from the hand.
C13_Recurrence ==
    op = "estimate" =>
        IF Len(hand) = 0 THEN out = 0
        ELSE out = Least_({1 + estimateMinimumTurns(removeCards(hand, Generated_[i].cards),
                                                    state.field.revolution)
                           : i \in 1..Len(Generated_)})

\* a hand that takes more than one play and fewer than one play per card
C13_Witness ==
    /\ op = "estimate"
    /\ Len(hand) >= 3
    /\ 1 < out /\ out < Len(hand)

\* C14: every recursive call of estimateMinimumTurns is on a hand with fewer
\* cards, and the result is 0 for the empty hand and between 1 and the
\* number of cards for any other hand.
C14_Bounded ==
    op = "estimate" =>
        /\ \A i \in 1..Len(Generated_) :
               Len(removeCards(hand, Generated_[i].cards)) < Len(hand)
        /\ IF Len(hand) = 0 THEN out = 0 ELSE 1 <= out /\ out <= Len(hand)

\* a hand that needs one play per card: the fallback bound is the result
C14_Witness ==
    /\ op = "estimate"
    /\ Len(hand) >= 3
    /\ out = Len(hand)

\* C15: with pairwise distinct names in the input, no two participants of the
\* roster that ensureNpcParticipants returns share a name, whatever the
\* desired count and the random source.
C15_DistinctNames ==
    op = "ensure" =>
        \A i, j \in 1..Len(out) : i # j => out[i].name # out[j].name

\* a constant random source: after its one name the fallback names fill the seats
C15_Witness ==
    /\ op = "ensure"
    /\ Len(random) = 1
    /\ Len(out) >= Len(participants) + 3
    /\ \E i \in 1..Len(out) : out[i].name = "NPC4"

\* C16: ensureNpcParticipants returns a roster of max(|participants|,
\* desiredCount) entries that starts with the participants given, in their
\* order, followed only by entries with isHuman = false and controller =
\* "npc"; the array given is left as it was.
C16_RosterShape ==
    [][op' = "ensure" =>
          LET given == Len(participants) IN
          /\ participants' = participants
          /\ Len(out') = Max2(given, desiredCount)
          /\ SubSeq(out', 1, given) = participants
          /\ \A i \in (given + 1)..Len(out') :
                 ~out'[i].isHuman /\ out'[i].controller = "npc"]_vars

\* two seats taken, four wanted: two NPCs follow the two participants
C16_Witness ==
    /\ op = "ensure"
    /\ Len(participants) = 2 /\ desiredCount = 4
    /\ Len(out) = 4 /\ ~out[4].isHuman

\* C17: two calls of ensureNpcParticipants with equal participants, equal
\* desiredCount and random sources returning the same values return the same
\* roster: same ids, names, flags and order.
C17_Deterministic ==
    [][(op = "ensure" /\ op' = "ensure") => out' = out]_vars

Band_(remainingCards) ==
    IF remainingCards <= 2 THEN 18
    ELSE IF remainingCards <= 4 THEN 10
    ELSE IF remainingCards <= 7 THEN 4
    ELSE 0

RECURSIVE Threat_(_)
Threat_(opponents) ==
    IF opponents = <<>> THEN 0
    ELSE Band_(Head(opponents).remainingCards) + Threat_(Tail(opponents))

\* C20: the pass score is patience minus threat, where patience is
\* max(0, 12 - 3 * passesInRow), never negative and not greater after one
\* more pass, and threat adds one band value per opponent: 18 for at most 2
\* cards, else 10 for at most 4, else 4 for at most 7, else 0.
C20_PassScore ==
    op = "pass" =>
        LET raw == 12 - 3 * state.field.passesInRow
            patience == IF raw > 0 THEN raw ELSE 0
            onceMore == [state EXCEPT !.field.passesInRow = @ + 1]
        IN  /\ out.score = RInt(patience - Threat_(state.opponents))
            /\ out.breakdown.patience = RInt(patience)
            /\ RLe(RInt(0), out.breakdown.patience)
            /\ RLe(evaluatePass(onceMore).breakdown.patience, out.breakdown.patience)

\* patience at its floor, one opponent in the top band and one in the lowest
C20_Witness ==
    /\ op = "pass"
    /\ state.field.passesInRow >= 5
    /\ Len(state.opponents) = 2
    /\ state.opponents[1].remainingCards <= 2
    /\ state.opponents[2].remainingCards \in 5..7
    /\ out.score = RInt(-22)

RECURSIVE SumOfFields_(_, _)
SumOfFields_(record, names) ==
    IF names = {} THEN RInt(0)
    ELSE LET name == CHOOSE x \in names : TRUE
         IN  RAdd(record[name], SumOfFields_(record, names \ {name}))

\* C21: the score of every move chooseMove returns is the sum of the values
\* of its breakdown; the breakdown of a play has exactly the terms shape,
\* control, pressure and endgame, and the score is their sum.
C21_ScoreIsBreakdownSum ==
    (op = "choose" /\ out # Threw) =>
        /\ out.score = SumOfFields_(out.breakdown, DOMAIN out.breakdown)
        /\ out.action = "play" =>
               /\ DOMAIN out.breakdown = {"shape", "control", "pressure", "endgame"}
               /\ out.score = RAdd(RAdd(out.breakdown.shape, out.breakdown.control),
                                   RAdd(out.breakdown.pressure, out.breakdown.endgame))

\* a play whose four terms all count
C21_Witness ==
    /\ op = "choose" /\ out # Threw /\ out.action = "play"
    /\ \A name \in DOMAIN out.breakdown : out.breakdown[name] # RInt(0)

\* C22: for every opponents list, the empty one included, the endgame bonus
\* is the win bonus (120) exactly when no card remains; with 1 to 4 cards
\* remaining it is positive and below the win bonus; with 5 or more it is 0.
C22_EndgameBonus ==
    op = "endgame" =>
        /\ out = 120 <=> Len(hand) = 0
        /\ Len(hand) \in 1..4 => 0 < out /\ out < 120
        /\ Len(hand) >= 5 => out = 0

\* C23: on an open field without revolution, passesInRow = 0 and opponents
\* holding 5 and 6 cards, chooseMove for the hand 5, 6, 7 of hearts, 9 of
\* clubs, 9 of diamonds plays the heart sequence 5-6-7: it scores above every
\* other legal combination and above passScore + 2, and its shape term is
\* greater than 10.
C23_PrefersSequence ==
    (/\ op = "choose"
     /\ Ids(hand) = Ids(TestHand)
     /\ state.field.currentCombination = None
     /\ ~state.field.revolution) =>
        /\ out # Threw /\ out.action = "play"
        /\ out.combination.type = "sequence"
        /\ Ids(out.combination.cards) = {"h5", "h6", "h7"}
        /\ RLt(RInt(10), out.breakdown.shape)
        /\ RLt(RAdd(evaluatePass(state).score, RInt(2)), out.score)
        /\ \A i \in 1..Len(Legal_) :
               Legal_[i] # out.combination =>
                   RLt(evaluateCombination(hand, Legal_[i], state).score, out.score)

\* the test's hand held nines first: the sequence is played with shape 32.7
C23_Witness ==
    /\ op = "choose"
    /\ Ids(hand) = Ids(TestHand) /\ hand[1].rank = 9
    /\ state.field.currentCombination = None /\ ~state.field.revolution
    /\ out # Threw /\ out.action = "play"
    /\ out.breakdown.shape = Rat(327, 10)

\* C29: for two orderings of the same cards and the same table state,
\* chooseMove returns the same action and the same score.
C29_OrderIndependent ==
    (op = "choose" /\ out # Threw) =>
        LET other == chooseMove(Reverse(hand), state)
        IN  /\ out.action = other.action
            /\ out.score = other.score

\* the recursion of estimateMinimumTurns with no cache at all
RECURSIVE Horizon_(_, _)
Horizon_(h, revolution) ==
    IF Len(h) = 0 THEN 0
    ELSE LET combinations == generateAllPotentialCombinations(h, revolution)
         IN  Least_({Len(h)} \cup {1 + Horizon_(removeCards(h, combinations[i].cards), revolution)
                                   : i \in 1..Len(combinations)})

\* C24: estimateMinimumTurns with its cache returns what the same recursion
\* returns without a cache, for every hand and revolution flag.
C24_MemoTransparent ==
    op = "estimate" => out = Horizon_(hand, state.field.revolution)

\* a hand with both jokers, whose one-joker residual hands share a cache key
C24_Witness ==
    /\ op = "estimate"
    /\ {"j1", "j2"} \subseteq Ids(hand)
    /\ Len(hand) >= 3
    /\ memoKey(removeCards(hand, <<hand[1]>>), state.field.revolution)
           \in DOMAIN estimateMinimumTurnsMemo(hand, state.field.revolution, EmptyMemo).memo

ListNames_ ==
    {familyNames[i] \o " " \o givenNames[j] : i \in 1..Len(familyNames), j \in 1..Len(givenNames)}

\* C25: generateJapaneseNpcName returns a numbered placeholder (NPC<n>) only
\* when every family/given combination is already in usedNames; while one is
\* unused it returns a family/given name, for any random source.
C25_FallbackOnlyWhenExhausted ==
    op = "ensure" =>
        \A k \in (Len(participants) + 1)..Len(out) :
            out[k].name \notin ListNames_ =>
                ListNames_ \subseteq {out[i].name : i \in 1..(k - 1)}

\* C26: in every pass that chooseMove returns, forced or voluntary,
\* breakdown.patience is max(0, 12 - 3 * passesInRow) and breakdown.threat is
\* the negated threat sum over the opponents.
C26_PassBreakdown ==
    (op = "choose" /\ out # Threw /\ out.action = "pass") =>
        LET raw == 12 - 3 * state.field.passesInRow
        IN  /\ DOMAIN out.breakdown = {"patience", "threat"}
            /\ out.breakdown.patience = RInt(IF raw > 0 THEN raw ELSE 0)
            /\ out.breakdown.threat = RInt(-Threat_(state.opponents))

\* C30: estimateMinimumTurns returns the same value for a hand under both
\* values of the revolution flag.
C30_FlagIndependent ==
    op = "estimate" =>
        out = estimateMinimumTurns(hand, ~state.field.revolution)

\* C28: with no current combination on the field and a hand with cards,
\* chooseMove returns a play, for every opponents list and every passesInRow.
C28_OpensOnEmptyField ==
    (op = "choose" /\ state.field.currentCombination = None /\ Len(hand) > 0) =>
        out # Threw /\ out.action = "play"

\* C27: for every client key, at most 8 calls of canProceed return true
\* within any interval of 60 seconds, whatever the other keys do.
C27_PerMinuteCap ==
    \A key \in Keys :
        \A i \in 1..Len(granted[key]) :
            Cardinality({j \in 1..Len(granted[key]) :
                            /\ granted[key][j] > granted[key][i] - windowMs
                            /\ granted[key][j] <= granted[key][i]}) <= maxRequestsPerWindow

====
